---- MODULE Spec2Model ----
(***************************************************************************)
(* A model of the feed-forward network of network.go: Network.Init,        *)
(* FeedForward, SGD with backpropQuadCost, DumpWeightsBiases and           *)
(* ReadWeightsBiases.                                                      *)
(*                                                                         *)
(* Representation.                                                         *)
(*  - A mat64.Dense is a record [rows, cols, data] with data in row-major   *)
(*    order.  In this program capRows/capCols always equal rows/cols        *)
(*    (NewDense, Clone, reuseAs and Reset keep them equal), so Caps() is    *)
(*    read as the dimensions.                                              *)
(*  - A float64 is a symbolic token, not a magnitude.  A parameter entry is *)
(*    the integer 10000*g + 100*u + k: the k-th normal variate drawn by the *)
(*    g-th Init call, after u update steps have been applied to it.  A      *)
(*    gradient entry is a record [ex, l, r, c]: the gradient of training    *)
(*    example ex for layer l, row r (0 for a bias gradient), column c.  A   *)
(*    sum of gradients is the sequence of its terms in summation order.     *)
(*  - Layers are numbered from 1 (Go index i is layer i+1); positions in    *)
(*    the training set keep the 0-based indices of the code.                *)
(*  - A training example is represented by its length len(data[k]); its     *)
(*    matrices are taken to have the widths of the first and last layer.    *)
(*  - A file is its sequence of 8-byte words (every item MarshalBinary      *)
(*    writes is 8 bytes wide and every read is a whole number of them).     *)
(***************************************************************************)
EXTENDS Integers, Sequences, FiniteSets, TLC

\* Bounds of the model.
MaxN == 4
MaxBatch == 2
MaxTest == 1
MaxCalls == 1
MaxInits == 1
MaxDumps == 2

VARIABLES
    NumLayers, Sizes, Weights, Biases, TestFunc,   \* the Network struct
    inits,                                         \* Init calls made so far
    pc,                                            \* position of the program
    data, batchSize, test, iterations, i, j,       \* parameters and locals of SGD
    nablaB, nablaW,                                \* SGD's accumulators
    tmpNablaB, tmpNablaW,                          \* what the last backprop returned
    correct, ti, report,                           \* the evaluation loop of SGD
    ffOut,                                         \* dimensions FeedForward returned
    calls,                                         \* SGD calls made so far
    files, dumps,                                  \* the file system, dumps made
    \* history variables, written but never read by the program
    B0, reads, seen, batchLog, evalLog, dumped, readFrom

netVars == <<NumLayers, Sizes, Weights, Biases, TestFunc, inits>>
sgdVars == <<data, batchSize, test, iterations, i, j, nablaB, nablaW,
             tmpNablaB, tmpNablaW, correct, ti, report, calls>>
histVars == <<B0, reads, seen, batchLog, evalLog>>
fileVars == <<files, dumps, dumped>>
vars == <<netVars, pc, sgdVars, ffOut, histVars, fileVars, readFrom>>

----------------------------------------------------------------------------
\* mat64.Dense

Dense(r, c, d) == [rows |-> r, cols |-> c, data |-> d]

\* The zero value of mat64.Dense, also what Reset leaves.
ZeroDense == Dense(0, 0, <<>>)

\* mat64.NewDense(r, c, nil): an r x c matrix of zeros.
NewDense(r, c, zero) == Dense(r, c, [p \in 1..(r * c) |-> zero])

Dims(m) == <<m.rows, m.cols>>

\* Row-major position of entry (r, c), both counted from 0 as in At/Set.
Pos(m, r, c) == r * m.cols + c + 1

----------------------------------------------------------------------------
\* Network.Init

\* The layer size sequences Init is called with: the networks of the tests
\* ([2,3,4] and [2,3,1]), a two-layer network, four-layer networks whose
\* widths stay equal, grow or shrink towards the input, and the fatal case of
\* a single layer.
LayerSizes ==
    { <<2>>, <<1, 2>>, <<2, 3, 1>>, <<2, 3, 4>>,
      <<1, 1, 1, 1>>, <<1, 2, 1, 1>>, <<2, 2, 3, 1>> }

\* The widths of the input row-vectors FeedForward is called with.
InputWidths == UNION {{s[k] : k \in 1..Len(s)} : s \in LayerSizes}

\* Number of variates Init draws for layers before layer l: the loop fills
\* Weights[i] (size[i] * size[i+1] draws) and then Biases[i] (size[i+1] draws).
RECURSIVE DrawsBefore(_, _)
DrawsBefore(size, l) ==
    IF l <= 1 THEN 0
    ELSE DrawsBefore(size, l - 1) + size[l - 1] * size[l] + size[l]

\* The k-th variate drawn by the g-th Init call.
NormFloat64(g, k) == 10000 * g + k

\* Variant of InitWeight with the two dimensions exchanged (C3 must notice).
InitWeightMut(size, g, l) ==
    Dense(size[l + 1], size[l],
          [p \in 1..(size[l] * size[l + 1]) |-> NormFloat64(g, DrawsBefore(size, l) + p)])

\* Weights[l] after Init: size[l] x size[l+1], filled row by row.
InitWeight(size, g, l) ==
    Dense(size[l], size[l + 1],
          [p \in 1..(size[l] * size[l + 1]) |-> NormFloat64(g, DrawsBefore(size, l) + p)])

\* Biases[l] after Init: 1 x size[l+1], drawn after the weights of the layer.
InitBias(size, g, l) ==
    Dense(1, size[l + 1],
          [p \in 1..size[l + 1] |->
              NormFloat64(g, DrawsBefore(size, l) + size[l] * size[l + 1] + p)])

----------------------------------------------------------------------------
\* Network.FeedForward, as far as dimensions go

Panic == <<-1, -1>>

\* One layer of the forward pass on a matrix of dimensions d: Mul panics
\* unless the inner dimensions agree, Add unless both operands have the same
\* dimensions; Apply keeps the dimensions.
ForwardLayer(d, W, B) ==
    IF d = Panic \/ d[2] # W.rows THEN Panic
    ELSE IF <<d[1], W.cols>> # Dims(B) THEN Panic
    ELSE <<d[1], W.cols>>

RECURSIVE ForwardFrom(_, _, _, _, _)
ForwardFrom(d, l, last, W, B) ==
    IF l > last THEN d
    ELSE ForwardFrom(ForwardLayer(d, W[l], B[l]), l + 1, last, W, B)

\* Variant of FeedForward whose loop stops one layer early (C4 must notice).
FeedForwardMut(d, n, W, B) == ForwardFrom(d, 1, n - 2, W, B)

\* Dimensions of FeedForward's result for an input of dimensions d, or Panic.
\* With NumLayers < 2 the loop body never runs and the input is returned.
FeedForward(d, n, W, B) == ForwardFrom(d, 1, n - 1, W, B)

----------------------------------------------------------------------------
\* Network.backpropQuadCost

\* The gradient of example ex for layer l, row r (0: a bias gradient), column c.
Grad(ex, l, r, c) == [ex |-> ex, l |-> l, r |-> r, c |-> c]

\* The entries of the delta computed for layer l from example ex (1 x c).
DeltaOf(ex, l, c) == [p \in 1..c |-> Grad(ex, l, 0, p)]

\* use(f, n) of mat64, with f the backing array of a matrix that was Reset:
\* the array is reused when its capacity holds n elements (Reset keeps the
\* array and make([]float64, n) has capacity n), otherwise a new one is made.
Reuses(array, n) == n <= Len(array)

\* The backing array after MulElem wrote the n new values into it.
Overwrite(array, new) ==
    [p \in 1..Len(array) |-> IF p <= Len(new) THEN new[p] ELSE array[p]]

\* The state of the backward pass: heap is the backing arrays allocated so
\* far, dbuf the array delta.mat.Data points into, nb[l] the header of
\* nablaB[l] (its dimensions and the array its Data points into).
\*
\* Lines 230-236 and 242-246: every nablaB[l] starts as a Clone of Biases[l]
\* (an array of its own); delta is made by MulElem on a zero Dense (a new
\* array); nablaB[size] is a Clone of delta (another array of its own).
BackwardStart(ex, W, B, size) ==
    LET c == W[size].cols
        h0 == [l \in 1..size |-> B[l].data]
        h1 == Append(Append(h0, DeltaOf(ex, size, c)), DeltaOf(ex, size, c))
    IN  [heap |-> h1,
         dbuf |-> size + 1,
         nb |-> [l \in 1..size |->
                   IF l = size THEN [rows |-> 1, cols |-> c, buf |-> size + 2]
                   ELSE [rows |-> B[l].rows, cols |-> B[l].cols, buf |-> l]]]

\* Lines 250-259 for layer l (Go index l-1): delta.Reset(), delta.MulElem
\* into the reused or a new array, then nablaB[l] = delta, which copies the
\* header of delta and so shares its array.
BackwardLayer(st, ex, W, l) ==
    LET c == W[l].cols
        new == DeltaOf(ex, l, c)
        old == st.heap[st.dbuf]
        reuse == Reuses(old, c)
        heap2 == IF reuse THEN [st.heap EXCEPT ![st.dbuf] = Overwrite(old, new)]
                 ELSE Append(st.heap, new)
        dbuf2 == IF reuse THEN st.dbuf ELSE Len(st.heap) + 1
    IN  [heap |-> heap2,
         dbuf |-> dbuf2,
         nb |-> [st.nb EXCEPT ![l] = [rows |-> 1, cols |-> c, buf |-> dbuf2]]]

RECURSIVE BackwardFrom(_, _, _, _)
BackwardFrom(st, ex, W, l) ==
    IF l < 1 THEN st
    ELSE BackwardFrom(BackwardLayer(st, ex, W, l), ex, W, l - 1)

\* What the caller reads through the header h when backprop has returned.
View(heap, h) == Dense(h.rows, h.cols, SubSeq(heap[h.buf], 1, h.rows * h.cols))

\* nablaB as returned for example ex by a network of n layers.
BackpropNablaB(ex, W, B, n) ==
    LET size == n - 1
        st == BackwardFrom(BackwardStart(ex, W, B, size), ex, W, size - 1)
    IN  [l \in 1..size |-> View(st.heap, st.nb[l])]

\* nablaW as returned: nablaW[l] is a Clone of Weights[l] that Mul overwrites
\* with activations[l-1] transposed times the delta of layer l.
BackpropNablaW(ex, W, n) ==
    [l \in 1..(n - 1) |->
        Dense(W[l].rows, W[l].cols,
              [p \in 1..(W[l].rows * W[l].cols) |->
                  Grad(ex, l, ((p - 1) \div W[l].cols) + 1, ((p - 1) % W[l].cols) + 1)])]

\* Whether backprop panics on a well-shaped example: in the forward pass, or
\* in quadraticCost when the output and the desired output differ in shape.
BackpropPanics(sizes, W, B, n) ==
    FeedForward(<<1, sizes[1]>>, n, W, B) # <<1, sizes[n]>>

----------------------------------------------------------------------------
\* Network.SGD

\* The training sets SGD is called with: n examples, all of length 2 except
\* possibly the one at position bad - 1, which has length 1.
DataSets ==
    {[k \in 1..n |-> IF k = bad THEN 1 ELSE 2] : n \in 0..MaxN, bad \in 0..MaxN}

\* The test sets: nil, or size well-formed examples.
TestSets ==
    {[isNil |-> TRUE, size |-> 0]} \cup {[isNil |-> FALSE, size |-> m] : m \in 0..MaxTest}

NoDims == <<0, 0>>
NoReport == [correct |-> -1, total |-> -1]

\* Variant of Iterations without the extra batch for the remainder (C2 must
\* notice).
IterationsMut(n, b) == n \div b

\* Lines 133-136.
Iterations(n, b) == IF n % b > 0 THEN (n \div b) + 1 ELSE n \div b

\* Variant of BatchLen that never shortens the last batch (C10 must notice).
BatchLenMut(n, k, b) == b

\* Lines 149-151: the batch size used from batch k on.
BatchLen(n, k, b) == IF n - k * b < b THEN n - k * b ELSE b

\* Line 154: the position of the example the j-th backprop of batch k reads.
ReadIndex(k, jj, b) == k + jj

\* Lines 143-147: the accumulators of a batch, zero matrices; the zero of a
\* sum is the empty sequence of terms.
ZeroNablaW(sizes, n) == [l \in 1..(n - 1) |-> NewDense(sizes[l], sizes[l + 1], <<>>)]
ZeroNablaB(sizes, n) == [l \in 1..(n - 1) |-> NewDense(1, sizes[l + 1], <<>>)]

\* Lines 156-157: Add panics unless both operands have the same dimensions.
AddPanics(acc, tmp) == \E l \in DOMAIN acc : Dims(acc[l]) # Dims(tmp[l])

Accumulate(acc, tmp) ==
    [l \in DOMAIN acc |->
        Dense(acc[l].rows, acc[l].cols,
              [p \in DOMAIN acc[l].data |-> Append(acc[l].data[p], tmp[l].data[p])])]

\* Lines 167 and 173: old - nabla*eta/float64(batchSize), one more update
\* step applied to the entry.
Step(old, nabla, b) == old + 100

\* Lines 164-175 for one matrix: every entry in the Caps of the accumulator
\* is rewritten; Set panics on an entry the parameter matrix does not have.
SetPanics(P, acc) ==
    \E l \in DOMAIN acc :
        acc[l].rows * acc[l].cols > 0 /\ (acc[l].rows > P[l].rows \/ acc[l].cols > P[l].cols)

Updated(P, acc, b) ==
    [l \in DOMAIN P |->
        Dense(P[l].rows, P[l].cols,
              [p \in DOMAIN P[l].data |->
                  LET r == (p - 1) \div P[l].cols
                      c == (p - 1) % P[l].cols
                  IN  IF r < acc[l].rows /\ c < acc[l].cols
                      THEN Step(P[l].data[p], acc[l].data[Pos(acc[l], r, c)], b)
                      ELSE P[l].data[p]])]

\* Variant of EvalEnabled that does not ask for a predicate (C7 must notice).
EvalEnabledMut(t, tf) == ~t.isNil

\* Line 178.
EvalEnabled(t, tf) == ~t.isNil /\ tf

----------------------------------------------------------------------------
\* DumpWeightsBiases and ReadWeightsBiases

FileNames == {"f", "g"}

NoFile == [exists |-> FALSE, words |-> <<>>]
NoDump == [valid |-> FALSE, sizes |-> <<>>, W |-> <<>>, B |-> <<>>]
NoRead == [file |-> "none", shaped |-> FALSE]

\* The matrices of the network have the dimensions Init gave them.
Shaped ==
    /\ NumLayers >= 2
    /\ \A l \in 1..(NumLayers - 1) :
          /\ Dims(Weights[l]) = <<Sizes[l], Sizes[l + 1]>>
          /\ Dims(Biases[l]) = <<1, Sizes[l + 1]>>

\* Dense.MarshalBinary: the row count, the column count, the entries row by row.
MarshalBinary(m) == <<m.rows, m.cols>> \o m.data

\* Dense.UnmarshalBinary into a matrix that was Reset: the buffer must hold
\* exactly the entries its header announces; on an error the matrix stays zero
\* (the caller drops the error).
UnmarshalBinary(buf) ==
    LET r == buf[1]
        c == buf[2]
    IN  IF r < 0 \/ c < 0 THEN ZeroDense
        ELSE IF Len(buf) # r * c + 2 THEN ZeroDense
        ELSE Dense(r, c, SubSeq(buf, 3, Len(buf)))

\* Lines 74-85: what one Dump appends, layer after layer.
RECURSIVE Serialized(_, _, _)
Serialized(W, B, l) ==
    IF l > Len(W) THEN <<>>
    ELSE MarshalBinary(W[l]) \o MarshalBinary(B[l]) \o Serialized(W, B, l + 1)

\* file.Read(data) at offset pos into a buffer of n words made by make: the
\* words the file still has, the rest of the buffer stays zero.
ReadBuf(words, pos, n) ==
    [p \in 1..n |-> IF pos + p <= Len(words) THEN words[pos + p] ELSE 0]

Advance(words, pos, n) == IF pos + n <= Len(words) THEN pos + n ELSE Len(words)

\* Lines 96-108 from layer l on, the file offset being pos: the buffer sizes
\* come from the dimensions the matrices have in memory.
RECURSIVE ReadLayers(_, _, _, _, _)
ReadLayers(words, pos, W, B, l) ==
    IF l > Len(W) THEN [W |-> W, B |-> B]
    ELSE LET nw == W[l].rows * W[l].cols + 2
             nb == B[l].rows * B[l].cols + 2
             pos2 == Advance(words, pos, nw)
             W2 == [W EXCEPT ![l] = UnmarshalBinary(ReadBuf(words, pos, nw))]
             B2 == [B EXCEPT ![l] = UnmarshalBinary(ReadBuf(words, pos2, nb))]
         IN  ReadLayers(words, Advance(words, pos2, nb), W2, B2, l + 1)

----------------------------------------------------------------------------
\* The state after construction: a zero Network, no call in progress, no file.

Init ==
    /\ NumLayers = 0 /\ Sizes = <<>> /\ Weights = <<>> /\ Biases = <<>>
    /\ TestFunc = FALSE /\ inits = 0
    /\ pc = "idle"
    /\ data = <<>> /\ batchSize = 0 /\ test = [isNil |-> TRUE, size |-> 0]
    /\ iterations = 0 /\ i = 0 /\ j = 0
    /\ nablaB = <<>> /\ nablaW = <<>> /\ tmpNablaB = <<>> /\ tmpNablaW = <<>>
    /\ correct = 0 /\ ti = 0 /\ report = NoReport
    /\ ffOut = NoDims /\ calls = 0
    /\ files = [f \in FileNames |-> NoFile] /\ dumps = 0
    /\ dumped = [f \in FileNames |-> NoDump] /\ readFrom = NoRead
    /\ B0 = 0 /\ reads = <<>> /\ seen = <<>> /\ batchLog = <<>> /\ evalLog = <<>>

\* The locals and the history of a call, as they are when no call is running.
CallCleared ==
    /\ data' = <<>> /\ batchSize' = 0 /\ test' = [isNil |-> TRUE, size |-> 0]
    /\ iterations' = 0 /\ i' = 0 /\ j' = 0
    /\ nablaB' = <<>> /\ nablaW' = <<>> /\ tmpNablaB' = <<>> /\ tmpNablaW' = <<>>
    /\ correct' = 0 /\ ti' = 0 /\ report' = NoReport
    /\ B0' = 0 /\ reads' = <<>> /\ seen' = <<>> /\ batchLog' = <<>> /\ evalLog' = <<>>

\* The process ends: log.Fatal (to = "fatal") or a run-time panic ("panic").
Dies(to) ==
    /\ pc' = to
    /\ UNCHANGED <<netVars, sgdVars, ffOut, histVars, fileVars, readFrom>>

----------------------------------------------------------------------------
\* Network.Init(size), lines 33-64

InitFatal(size) ==
    /\ pc = "idle" /\ inits < MaxInits
    /\ Len(size) < 2
    /\ NumLayers' = Len(size)
    /\ pc' = "fatal"
    /\ UNCHANGED <<Sizes, Weights, Biases, TestFunc, inits>>
    /\ UNCHANGED <<sgdVars, ffOut, histVars, fileVars, readFrom>>

InitNet(size) ==
    /\ pc = "idle" /\ inits < MaxInits
    /\ Len(size) >= 2
    /\ NumLayers' = Len(size)
    /\ Sizes' = size
    /\ Weights' = [l \in 1..(Len(size) - 1) |-> InitWeight(size, inits + 1, l)]
    /\ Biases' = [l \in 1..(Len(size) - 1) |-> InitBias(size, inits + 1, l)]
    /\ TestFunc' = FALSE
    /\ inits' = inits + 1
    /\ UNCHANGED <<pc, sgdVars, ffOut, histVars, fileVars, readFrom>>

\* The caller assigns the exported field TestFunc (as TestSGD does).
SetTestFunc ==
    /\ pc = "idle" /\ ~TestFunc
    /\ TestFunc' = TRUE
    /\ UNCHANGED <<NumLayers, Sizes, Weights, Biases, inits>>
    /\ UNCHANGED <<pc, sgdVars, ffOut, histVars, fileVars, readFrom>>

----------------------------------------------------------------------------
\* Network.FeedForward(input) called by the user, lines 112-124

FeedForwardPanic(w) ==
    /\ pc = "idle"
    /\ FeedForward(<<1, w>>, NumLayers, Weights, Biases) = Panic
    /\ Dies("panic")

FeedForwardCall(w) ==
    /\ pc = "idle"
    /\ FeedForward(<<1, w>>, NumLayers, Weights, Biases) # Panic
    /\ ffOut' = FeedForward(<<1, w>>, NumLayers, Weights, Biases)
    /\ pc' = "ffret"
    /\ UNCHANGED <<netVars, sgdVars, histVars, fileVars, readFrom>>

\* The caller is done with the returned matrix.
FeedForwardReturn ==
    /\ pc = "ffret"
    /\ ffOut' = NoDims
    /\ pc' = "idle"
    /\ UNCHANGED <<netVars, sgdVars, histVars, fileVars, readFrom>>

----------------------------------------------------------------------------
\* Network.SGD(data, eta, batchSize, test), lines 128-189.  eta only scales
\* the update and is not kept.  The call is followed statement by statement:
\* pc is "batch" at the head of the outer loop body (line 140), "backprop" at
\* the head of the inner loop body (line 154), "update" at line 163, "test" at
\* line 178 and inside the evaluation loop, "done" at the return.

\* Lines 129-131, whatever the arguments of the call.
SGDNotSetUp ==
    /\ pc = "idle" /\ calls < MaxCalls
    /\ NumLayers < 2
    /\ Dies("fatal")

\* Line 133 in a call with batchSize = 0: integer division by zero, whatever
\* the other arguments.
SGDDivideByZero ==
    /\ pc = "idle" /\ calls < MaxCalls
    /\ NumLayers >= 2
    /\ Dies("panic")

\* Lines 133-139 in a call with a training set d, batchSize = b > 0 and a
\* test set t.
SGDCall ==
    /\ pc = "idle" /\ calls < MaxCalls
    /\ NumLayers >= 2
    /\ \E d \in DataSets, b \in 1..MaxBatch, t \in TestSets :
          /\ data' = d /\ batchSize' = b /\ test' = t
          /\ iterations' = Iterations(Len(d), b)
          /\ B0' = b
          /\ pc' = IF Iterations(Len(d), b) > 0 THEN "batch" ELSE "test"
    /\ i' = 0 /\ j' = 0
    /\ calls' = calls + 1
    /\ UNCHANGED <<netVars, nablaB, nablaW, tmpNablaB, tmpNablaW, correct, ti, report>>
    /\ UNCHANGED <<ffOut, reads, seen, batchLog, evalLog, fileVars, readFrom>>

\* Lines 140-153: new accumulators, the batch size of this batch, j := 0.
SGDBatch ==
    /\ pc = "batch"
    /\ nablaB' = ZeroNablaB(Sizes, NumLayers)
    /\ nablaW' = ZeroNablaW(Sizes, NumLayers)
    /\ batchSize' = BatchLen(Len(data), i, batchSize)
    /\ j' = 0
    /\ reads' = <<>> /\ seen' = <<>>
    /\ pc' = IF 0 < BatchLen(Len(data), i, batchSize) THEN "backprop" ELSE "update"
    /\ UNCHANGED <<netVars, data, test, iterations, i, tmpNablaB, tmpNablaW>>
    /\ UNCHANGED <<correct, ti, report, calls, ffOut, B0, batchLog, evalLog>>
    /\ UNCHANGED <<fileVars, readFrom>>

\* Line 154: data[i+j] with i+j past the end of the training set panics.
IndexOutOfRange == ReadIndex(i, j, batchSize) >= Len(data)

\* Lines 204-206: the example read is not a pair.
Malformed == ~IndexOutOfRange /\ data[ReadIndex(i, j, batchSize) + 1] # 2

\* A matrix operation of backprop, or the Add of line 156 or 157, panics.
ShapePanics ==
    \/ BackpropPanics(Sizes, Weights, Biases, NumLayers)
    \/ AddPanics(nablaB, BackpropNablaB(0, Weights, Biases, NumLayers))
    \/ AddPanics(nablaW, BackpropNablaW(0, Weights, NumLayers))

\* The pass through the inner loop body that ends the process: log.Fatal on
\* a malformed example, a panic otherwise.
SGDBackpropDies ==
    /\ pc = "backprop"
    /\ IndexOutOfRange \/ Malformed \/ ShapePanics
    /\ reads' = Append(reads, ReadIndex(i, j, batchSize))
    /\ pc' = IF Malformed THEN "fatal" ELSE "panic"
    /\ UNCHANGED <<netVars, sgdVars, ffOut, B0, seen, batchLog, evalLog, fileVars, readFrom>>

\* What one pass through the inner loop body (lines 154-158) does to the
\* locals of SGD: backprop on data[i+j], its gradients added to the sums.
BackpropBody ==
    /\ pc = "backprop"
    /\ ~IndexOutOfRange /\ ~Malformed /\ ~ShapePanics
    /\ LET ex == ReadIndex(i, j, batchSize)
           tB == BackpropNablaB(ex, Weights, Biases, NumLayers)
           tW == BackpropNablaW(ex, Weights, NumLayers)
       IN  /\ tmpNablaB' = tB /\ tmpNablaW' = tW
           /\ nablaB' = Accumulate(nablaB, tB)
           /\ nablaW' = Accumulate(nablaW, tW)
           /\ reads' = Append(reads, ex)
    /\ seen' = Append(seen, [W |-> Weights, B |-> Biases])
    /\ j' = j + 1
    /\ pc' = IF j + 1 < batchSize THEN "backprop" ELSE "update"
    /\ UNCHANGED <<NumLayers, Sizes, TestFunc, inits>>
    /\ UNCHANGED <<data, batchSize, test, iterations, i, correct, ti, report, calls>>
    /\ UNCHANGED <<ffOut, B0, batchLog, evalLog, fileVars, readFrom>>

\* Variant of SGDBackprop that applies the sums to the parameters after every
\* example (C5 must notice).
SGDBackpropOnline ==
    /\ BackpropBody
    /\ Weights' = Updated(Weights, nablaW', batchSize)
    /\ Biases' = Updated(Biases, nablaB', batchSize)

\* Lines 153-159, one pass: backpropQuadCost reads the parameters (Mul, Add,
\* Clone) and writes none of them.
SGDBackprop ==
    /\ BackpropBody
    /\ UNCHANGED <<Weights, Biases>>

\* Lines 163-176, then the head of the outer loop (line 139).  Set panics on
\* an entry the parameter matrix does not have.
SGDUpdate ==
    /\ pc = "update"
    /\ IF SetPanics(Biases, nablaB) \/ SetPanics(Weights, nablaW)
       THEN Dies("panic")
       ELSE /\ Biases' = Updated(Biases, nablaB, batchSize)
            /\ Weights' = Updated(Weights, nablaW, batchSize)
            /\ batchLog' = Append(batchLog, [idx |-> reads, div |-> batchSize])
            /\ i' = i + 1
            /\ pc' = IF i + 1 < iterations THEN "batch" ELSE "test"
            /\ UNCHANGED <<NumLayers, Sizes, TestFunc, inits>>
            /\ UNCHANGED <<data, batchSize, test, iterations, j, nablaB, nablaW>>
            /\ UNCHANGED <<tmpNablaB, tmpNablaW, correct, ti, report, calls>>
            /\ UNCHANGED <<ffOut, B0, reads, seen, evalLog, fileVars, readFrom>>

\* Line 178, the condition false: nothing is evaluated, nothing printed.
SGDNoTest ==
    /\ pc = "test"
    /\ ~EvalEnabled(test, TestFunc)
    /\ pc' = "done"
    /\ UNCHANGED <<netVars, sgdVars, ffOut, histVars, fileVars, readFrom>>

\* Lines 182-185 for test example ti: FeedForward (which panics on a network
\* whose matrices do not fit together), then the user's predicate, whose
\* answer ok is the user's.
SGDTestExample(ok) ==
    /\ pc = "test"
    /\ EvalEnabled(test, TestFunc)
    /\ ti < test.size
    /\ IF FeedForward(<<1, Sizes[1]>>, NumLayers, Weights, Biases) = Panic
       THEN Dies("panic")
       ELSE /\ evalLog' = Append(evalLog,
                              [k |-> ti, W |-> Weights, B |-> Biases, ok |-> ok,
                               out |-> FeedForward(<<1, Sizes[1]>>, NumLayers, Weights, Biases)])
            /\ correct' = IF ok THEN correct + 1 ELSE correct
            /\ ti' = ti + 1
            /\ UNCHANGED <<netVars, pc, data, batchSize, test, iterations, i, j>>
            /\ UNCHANGED <<nablaB, nablaW, tmpNablaB, tmpNablaW, report, calls>>
            /\ UNCHANGED <<ffOut, B0, reads, seen, batchLog, fileVars, readFrom>>

\* Line 187, after the loop.
SGDReport ==
    /\ pc = "test"
    /\ EvalEnabled(test, TestFunc)
    /\ ti >= test.size
    /\ report' = [correct |-> correct, total |-> test.size]
    /\ pc' = "done"
    /\ UNCHANGED <<netVars, data, batchSize, test, iterations, i, j>>
    /\ UNCHANGED <<nablaB, nablaW, tmpNablaB, tmpNablaW, correct, ti, calls>>
    /\ UNCHANGED <<ffOut, histVars, fileVars, readFrom>>

\* Line 189: the call returns and its locals are gone.
SGDReturn ==
    /\ pc = "done"
    /\ pc' = "idle"
    /\ CallCleared
    /\ UNCHANGED <<netVars, calls, ffOut, fileVars, readFrom>>

----------------------------------------------------------------------------
\* Network.DumpWeightsBiases(fileName), lines 68-86: the file is created if
\* need be and opened for appending.

DumpWeightsBiases(f) ==
    /\ pc = "idle" /\ dumps < MaxDumps
    /\ files' = [files EXCEPT ![f] =
                    [exists |-> TRUE, words |-> @.words \o Serialized(Weights, Biases, 1)]]
    /\ dumps' = dumps + 1
    /\ dumped' = [dumped EXCEPT ![f] =
                    [valid |-> TRUE, sizes |-> Sizes, W |-> Weights, B |-> Biases]]
    /\ UNCHANGED <<netVars, pc, sgdVars, ffOut, histVars, readFrom>>

\* Network.ReadWeightsBiases(fileName), lines 90-109.

\* Lines 91-95: the file cannot be opened.
ReadNoFile(f) ==
    /\ pc = "idle"
    /\ ~files[f].exists
    /\ Dies("fatal")

\* Lines 96-108: the file is read from its start.
ReadWeightsBiases(f) ==
    /\ pc = "idle"
    /\ files[f].exists
    /\ LET got == ReadLayers(files[f].words, 0, Weights, Biases, 1)
       IN  Weights' = got.W /\ Biases' = got.B
    /\ readFrom' = [file |-> f, shaped |-> Shaped]
    /\ pc' = "readret"
    /\ UNCHANGED <<NumLayers, Sizes, TestFunc, inits>>
    /\ UNCHANGED <<sgdVars, ffOut, histVars, fileVars>>

\* The caller goes on after the Read.
ReadReturn ==
    /\ pc = "readret"
    /\ readFrom' = NoRead
    /\ pc' = "idle"
    /\ UNCHANGED <<netVars, sgdVars, ffOut, histVars, fileVars>>

----------------------------------------------------------------------------
\* The program without persistence: Init, FeedForward and SGD.

Next ==
    \/ \E size \in LayerSizes : InitFatal(size) \/ InitNet(size)
    \/ SetTestFunc
    \/ \E w \in InputWidths : FeedForwardPanic(w) \/ FeedForwardCall(w)
    \/ FeedForwardReturn
    \/ SGDNotSetUp \/ SGDDivideByZero
    \/ SGDCall
    \/ SGDBatch
    \/ SGDBackpropDies \/ SGDBackprop
    \/ SGDUpdate
    \/ SGDNoTest \/ \E ok \in BOOLEAN : SGDTestExample(ok)
    \/ SGDReport
    \/ SGDReturn

Spec == Init /\ [][Next]_vars

\* The program with persistence.
PersistNext ==
    \/ Next
    \/ \E f \in FileNames : DumpWeightsBiases(f) \/ ReadNoFile(f) \/ ReadWeightsBiases(f)
    \/ ReadReturn

PersistSpec == Init /\ [][PersistNext]_vars

----------------------------------------------------------------------------
\* Properties

N == Len(data)

Min(a, b) == IF a < b THEN a ELSE b

CeilDiv(n, b) == (n + b - 1) \div b

\* The positions from..to in increasing order.
Positions(from, to) == [p \in 1..(to - from + 1) |-> from + p - 1]

RECURSIVE SumLens(_, _)
SumLens(log, k) == IF k = 0 THEN 0 ELSE Len(log[k].idx) + SumLens(log, k - 1)

RECURSIVE CountOk(_, _)
CountOk(log, k) ==
    IF k = 0 THEN 0 ELSE (IF log[k].ok THEN 1 ELSE 0) + CountOk(log, k - 1)

InSGD == pc \in {"batch", "backprop", "update", "test", "done"}

\* C1: the k-th batch of an SGD call (k = 0, 1, ...) runs backpropagation on
\* exactly the examples at positions k*B .. min((k+1)*B, N)-1, in that order,
\* B being the batch size the call was given.
C1_ContiguousBatches ==
    \A k \in DOMAIN batchLog :
        batchLog[k].idx = Positions((k - 1) * B0, Min(k * B0, N) - 1)

\* C2: every update divides by the number of examples accumulated in its
\* batch, every batch but the last accumulates exactly B examples, and a call
\* that has left the training loop has made exactly ceil(N/B) updates whose
\* batches hold N examples in total.
C2_BatchCounts ==
    InSGD =>
        /\ \A k \in DOMAIN batchLog :
              /\ batchLog[k].div = Len(batchLog[k].idx)
              /\ k < CeilDiv(N, B0) => Len(batchLog[k].idx) = B0
        /\ pc \in {"test", "done"} =>
              /\ Len(batchLog) = CeilDiv(N, B0)
              /\ SumLens(batchLog, Len(batchLog)) = N

\* C2 witness: a call is over whose last batch was shorter than the others.
C2_Witness ==
    /\ pc = "done"
    /\ Len(batchLog) >= 2
    /\ batchLog[Len(batchLog)].div < B0
    /\ batchLog[1].div = B0

\* C3: on an initialized network NumLayers is the number of sizes, there are
\* NumLayers-1 weight matrices and bias vectors, Weights[l] is
\* Sizes[l] x Sizes[l+1] and Biases[l] is 1 x Sizes[l+1], whatever SGD and
\* FeedForward calls have been made.
C3_Shapes ==
    NumLayers >= 2 =>
        /\ NumLayers = Len(Sizes)
        /\ Len(Weights) = NumLayers - 1
        /\ Len(Biases) = NumLayers - 1
        /\ \A l \in 1..(NumLayers - 1) :
              /\ Dims(Weights[l]) = <<Sizes[l], Sizes[l + 1]>>
              /\ Len(Weights[l].data) = Sizes[l] * Sizes[l + 1]
              /\ Dims(Biases[l]) = <<1, Sizes[l + 1]>>
              /\ Len(Biases[l].data) = Sizes[l + 1]

\* C3 witness: a network with a non-square weight matrix has been trained.
C3_Witness ==
    /\ pc = "done"
    /\ Len(batchLog) >= 2
    /\ Sizes = <<2, 3, 4>>

\* C4: when FeedForward returns on an initialized network, the result is a
\* row-vector as wide as the last layer; so is every output the evaluation
\* phase of SGD hands to the predicate.
C4_OutputWidth ==
    NumLayers >= 2 =>
        /\ pc = "ffret" => ffOut = <<1, Sizes[NumLayers]>>
        /\ \A k \in DOMAIN evalLog : evalLog[k].out = <<1, Sizes[NumLayers]>>

\* C4 witness: FeedForward has returned on a trained three-layer network whose
\* input, hidden and output widths all differ.
C4_Witness ==
    /\ pc = "ffret"
    /\ calls >= 1
    /\ Sizes = <<2, 3, 4>>
    /\ ffOut = <<1, 4>>

\* C5: while a batch is being accumulated the parameters are the ones every
\* backpropagation of the batch has read, and no step of SGD other than the
\* update that follows the last backpropagation of a batch writes them.
C5_ParamsStableInBatch ==
    /\ [](pc \in {"backprop", "update"} =>
            \A k \in DOMAIN seen : seen[k].W = Weights /\ seen[k].B = Biases)
    /\ [][(InSGD /\ pc # "update") => UNCHANGED <<Weights, Biases>>]_vars

\* C5 witness: a second batch of two examples is about to be applied.
C5_Witness ==
    /\ pc = "update"
    /\ Len(seen) >= 2
    /\ Len(batchLog) >= 1

\* C6: an SGD call whose training set holds an example that is not a pair
\* never leaves the training loop.
C6_MalformedAborts ==
    pc \in {"test", "done"} => \A k \in DOMAIN data : data[k] = 2

\* C7: the predicate is called only when all updates have been applied and
\* both a test set and a predicate were given, once per test example and in
\* order, on the output under the parameters the network then has, which stay
\* as they are; the call ends having reported the number of true answers out
\* of the number of test examples, or without any evaluation.
C7_Evaluation ==
    InSGD =>
        /\ evalLog # <<>> => pc \in {"test", "done"} /\ Len(batchLog) = iterations
        /\ \A k \in DOMAIN evalLog :
              /\ evalLog[k].k = k - 1
              /\ evalLog[k].W = Weights /\ evalLog[k].B = Biases
        /\ Len(evalLog) <= test.size
        /\ (test.isNil \/ ~TestFunc) => evalLog = <<>> /\ report = NoReport
        /\ (pc = "done" /\ ~test.isNil /\ TestFunc) =>
              /\ Len(evalLog) = test.size
              /\ report = [correct |-> CountOk(evalLog, Len(evalLog)), total |-> test.size]

\* C7 witness: a call that trained and then evaluated has reported.
C7_Witness ==
    /\ pc = "done"
    /\ Len(batchLog) >= 1
    /\ report.total >= 1
    /\ report.correct = report.total

\* C8: when ReadWeightsBiases(f) returns on a network that had the dimensions
\* of its layer sizes, these being the layer sizes of the network last dumped
\* to f, its weights and biases are those the dumped network had at that dump.
C8_RoundTrip ==
    (pc = "readret" /\ readFrom.shaped
        /\ dumped[readFrom.file].valid /\ dumped[readFrom.file].sizes = Sizes)
    => Weights = dumped[readFrom.file].W /\ Biases = dumped[readFrom.file].B

\* C9: every entry of the nablaB[l] a backpropagation call returned is the
\* delta of layer l, and every entry of nablaW[l] a gradient of layer l.
C9_PerLayerGradients ==
    /\ \A l \in DOMAIN tmpNablaB :
          \A p \in DOMAIN tmpNablaB[l].data :
              tmpNablaB[l].data[p] = Grad(tmpNablaB[l].data[p].ex, l, 0, p)
    /\ \A l \in DOMAIN tmpNablaW :
          \A p \in DOMAIN tmpNablaW[l].data : tmpNablaW[l].data[p].l = l

\* C10: every position SGD reads in the training set is one of 0..N-1.
C10_ReadsInRange ==
    /\ \A k \in DOMAIN reads : reads[k] \in 0..(N - 1)
    /\ \A b \in DOMAIN batchLog :
          \A k \in DOMAIN batchLog[b].idx : batchLog[b].idx[k] \in 0..(N - 1)

\* C10 witness: after a full batch, a shortened final batch has been read to
\* its end.
C10_Witness ==
    /\ pc = "update"
    /\ Len(batchLog) >= 1
    /\ batchSize < B0
    /\ Len(reads) = batchSize

====
